---- MODULE Spec2Model ----
(***************************************************************************)
(* Order fulfilment saga of the Orders service (create / update / delete   *)
(* of an order against the remote Users and Inventory services) and the    *)
(* status transition guard of the Order Validator.                         *)
(*                                                                         *)
(* One request is one slot r of Reqs.  Every remote call (HTTP GET / PUT)  *)
(* and every database commit is one atomic step, so that two requests may  *)
(* interleave between a read and the write that follows it.                *)
(***************************************************************************)
EXTENDS Integers, Sequences, FiniteSets, TLC

\* ------------------------------------------------------------------ bounds
MaxItems == 2
MaxStock == 2
\* requests served one after the other by SpecSeq
MaxReqs == 2

\* ------------------------------------------------------------ input domains
SKUs == {"X", "Y"}
Quantities == {1, 2}
OrderIds == {"O1"}
\* users known to the Users service; 9 is an id the service does not hold
UsersDb == {1, 2, 3}
OrderUserIds == {1, 9}
Actors == { [id |-> 1, role |-> "user"],
            [id |-> 2, role |-> "user"],
            [id |-> 3, role |-> "admin"] }
Admin == [id |-> 3, role |-> "admin"]
Statuses == {"pending", "processing", "shipped", "delivered", "cancelled"}
Reqs == {1, 2}

Item == [sku : SKUs, quantity : Quantities]
ItemLists == UNION { [1..n -> Item] : n \in 0..MaxItems }

NoOrder == [absent |-> TRUE]
NoArgs == [kind |-> "none"]
NoResult == [code |-> 0, kind |-> "none", sku |-> "-"]
NoLoc == [i |-> 0, j |-> 0, processed |-> <<>>, cur |-> 0, mode |-> "none",
          err |-> NoResult, items |-> <<>>, changed |-> FALSE, old |-> "-"]

VARIABLES
  inventory,  \* Inventory service: sku -> qty of the records it holds
  orders,     \* Orders database: order id -> row, or NoOrder
  events,     \* Orders database: order_events rows in insertion order
  pc,         \* per request: the step it is about to take
  args,       \* per request: the request (body, acting user) and the
              \* inventory (for an update, the events too) as it was when the
              \* request arrived; for an update, row0 is existing_order as the
              \* handler's session loaded it
  loc,        \* per request: local variables of the handler
  result,     \* per request: the HTTP response
  calls,      \* per request: the reduce_inventory / restore_inventory calls
              \* made so far, in order, each with what it returned
  faulted,    \* per request: some remote call or commit failed by a fault
              \* (transport error, timeout, error status, failed commit)
  nreq,       \* requests that have arrived so far
  inventory0, \* the inventory before the first request (never changes)
  guard,      \* the Status Transition Guard applied to inputs: the last call and
              \* its result, and a walk over all pairs of the five statuses
  validation, \* the Order Validator applied to inputs: the last call and its result
  lookup,     \* the Inventory Ledger Client's lookup applied to inputs: the
              \* number of records held, the SKU looked up, and what came back
  audit       \* n[r]: remote calls the request in slot r has made so far;
              \* s[r]: those of them made by process_inventory_for_order;
              \* failed: some remote call or commit of some request so far has
              \* failed (a fault, or a PUT the Inventory service refused)

vars == <<inventory, orders, events, pc, args, loc, result, calls, faulted,
          nreq, inventory0, guard, validation, audit, lookup>>

\* ------------------------------------------------------------------ helpers
Msg(code, kind, sku) == [code |-> code, kind |-> kind, sku |-> sku]

InSeq(x, s) == \E k \in 1..Len(s) : s[k] = x

\* Outcomes of one remote call: a response, an error status, no response.
Outcomes == {"ok", "err_status", "down"}
\* GET / of the Inventory service: raise_for_status turns an error status into
\* the same httpx.HTTPError as a transport failure.
GetOutcomes == {"ok", "down"}
DbOutcomes == {"ok", "fail"}

\* ------------------------------------------------- Inventory service (remote)
\* PUT /{item_id} of the Inventory service is declared admin only: a caller
\* whose forwarded token does not carry the admin role gets 403.
InventoryPutAllowed(actor) == actor.role = "admin"

\* ------------------------------------------------- Inventory ledger client
\* reduce_inventory: new_qty = current_qty - quantity
ReduceNewQty(current_qty, quantity) == current_qty - quantity
\* reduce_inventory: the local check made before the write is issued
ReduceRejectsNever(new_qty) == FALSE
ReduceRejects(new_qty) == new_qty < 0
\* restore_inventory: new_qty = current_qty + quantity
RestoreNewQty(current_qty, quantity) == current_qty + quantity
\* check_stock_availability: current_qty >= required_qty
StockAvailableStrict(current_qty, required_qty) == current_qty > required_qty
StockAvailableAlways(current_qty, required_qty) == TRUE
StockAvailable(current_qty, required_qty) == current_qty >= required_qty

\* validate_items_exist: index of the first SKU the inventory does not hold, or 0
FirstMissing(inv, items) ==
  IF \E k \in 1..Len(items) : items[k].sku \notin DOMAIN inv
  THEN CHOOSE k \in 1..Len(items) :
         /\ items[k].sku \notin DOMAIN inv
         /\ \A m \in 1..(k - 1) : items[m].sku \in DOMAIN inv
  ELSE 0

\* ------------------------------------------------- rollback_inventory_deductions
\* `if sku in processed_skus`: the items the rollback loop releases
RollbackSelectsAll(items, processed, k) == TRUE
RollbackSelects(items, processed, k) == InSeq(items[k].sku, processed)
\* the first index >= from the rollback loop releases, or 0 when the loop is over
NextRollback(items, processed, from) ==
  IF \E k \in from..Len(items) : RollbackSelects(items, processed, k)
  THEN CHOOSE k \in from..Len(items) :
         /\ RollbackSelects(items, processed, k)
         /\ \A m \in from..(k - 1) : ~RollbackSelects(items, processed, m)
  ELSE 0

\* ------------------------------------------------------------ step helpers
Finish(r, m) ==
  /\ pc' = [pc EXCEPT ![r] = "done"]
  /\ result' = [result EXCEPT ![r] = m]

Goto(r, p) ==
  /\ pc' = [pc EXCEPT ![r] = p]
  /\ UNCHANGED result

\* the steps that are a database commit; every other step is one remote call
DbSteps == {"persist", "log_event", "delete"}

\* the steps that are a remote call of reduce_inventory or restore_inventory
SagaCalls == {"reduce_get", "reduce_put", "restore_get", "restore_put"}

\* the Inventory service refuses the PUT the request is about to send
Refused(r) ==
  pc[r] \in {"reduce_put", "restore_put"} /\ ~InventoryPutAllowed(args[r].actor)

Fault(r, out) ==
  /\ faulted' = [faulted EXCEPT ![r] = @ \/ out # "ok"]
  /\ audit' = [audit EXCEPT
        !.n[r] = IF pc[r] \in DbSteps THEN @ ELSE @ + 1,
        !.s[r] = IF pc[r] \in SagaCalls THEN @ + 1 ELSE @,
        !.failed = @ \/ out # "ok" \/ Refused(r)]

\* one entry of calls: what was called, for which item, and what it returned
Call(op, it, ok, err) ==
  [op |-> op, sku |-> it.sku, quantity |-> it.quantity, ok |-> ok, err |-> err]

\* the deduction loop as it would be if it returned the failure without rolling back
ReduceFailedNoRollback(r, m) ==
  /\ calls' = [calls EXCEPT ![r] =
                 Append(@, Call("reserve", loc[r].items[loc[r].i], FALSE, m.kind))]
  /\ Finish(r, m)
  /\ UNCHANGED loc

\* process_inventory_for_order(deduct=True): reduce_inventory returned (False, m)
\* for the current item.  Roll back what was processed, then return the failure.
ReduceFailed(r, m) ==
  LET l == loc[r]
      j == NextRollback(l.items, l.processed, 1)
  IN /\ calls' = [calls EXCEPT ![r] = Append(@, Call("reserve", l.items[l.i], FALSE, m.kind))]
     /\ IF l.processed # <<>> /\ j # 0
        THEN /\ loc' = [loc EXCEPT ![r].mode = "rollback", ![r].err = m, ![r].j = j]
             /\ Goto(r, "restore_get")
        ELSE /\ Finish(r, m)
             /\ UNCHANGED loc

\* process_inventory_for_order(deduct=True): reduce_inventory returned (True, None)
ReduceSucceeded(r) ==
  LET l == loc[r]
  IN /\ calls' = [calls EXCEPT ![r] = Append(@, Call("reserve", l.items[l.i], TRUE, "-"))]
     /\ loc' = [loc EXCEPT ![r].processed = Append(@, l.items[l.i].sku),
                           ![r].i = l.i + 1]
     /\ Goto(r, IF l.i < Len(l.items) THEN "reduce_get" ELSE "persist")

\* the item restore_inventory is working on: the rollback loop's or the
\* cancellation loop's
RestoreIndex(l) == IF l.mode = "rollback" THEN l.j ELSE l.i

\* the cancellation loop as it would be if a failed release ended the update
RestoreReturnedAborts(r, ok) ==
  LET l == loc[r]
      k == RestoreIndex(l)
  IN /\ calls' = [calls EXCEPT ![r] = Append(@,
                   Call("release", l.items[k], ok, IF ok THEN "-" ELSE "release_failed"))]
     /\ IF l.mode = "rollback"
        THEN LET j == NextRollback(l.items, l.processed, k + 1)
             IN IF j # 0
                THEN /\ loc' = [loc EXCEPT ![r].j = j]
                     /\ Goto(r, "restore_get")
                ELSE /\ Finish(r, l.err)
                     /\ UNCHANGED loc
        ELSE IF ~ok
        THEN /\ Finish(r, Msg(400, "release_failed", l.items[k].sku))
             /\ UNCHANGED loc
        ELSE /\ loc' = [loc EXCEPT ![r].processed = Append(@, l.items[k].sku),
                                   ![r].i = l.i + 1]
             /\ Goto(r, IF l.i < Len(l.items) THEN "restore_get" ELSE "persist")

\* restore_inventory returned; ok says how.  The rollback loop logs and goes on
\* to the next processed item, then the original failure is returned; the
\* cancellation loop (deduct=False) logs and goes on, then returns success.
RestoreReturned(r, ok) ==
  LET l == loc[r]
      k == RestoreIndex(l)
  IN /\ calls' = [calls EXCEPT ![r] = Append(@,
                   Call("release", l.items[k], ok, IF ok THEN "-" ELSE "release_failed"))]
     /\ IF l.mode = "rollback"
        THEN LET j == NextRollback(l.items, l.processed, k + 1)
             IN IF j # 0
                THEN /\ loc' = [loc EXCEPT ![r].j = j]
                     /\ Goto(r, "restore_get")
                ELSE /\ Finish(r, l.err)
                     /\ UNCHANGED loc
        ELSE /\ loc' = [loc EXCEPT
                   ![r].processed = IF ok THEN Append(@, l.items[k].sku) ELSE @,
                   ![r].i = l.i + 1]
             /\ Goto(r, IF l.i < Len(l.items) THEN "restore_get" ELSE "persist")

\* ------------------------------------------------------------------- Init
Inventories == UNION { [S -> 0..MaxStock] : S \in SUBSET SKUs }

NoGuard == [checked |-> FALSE, old |-> "-", new |-> "-", valid |-> FALSE,
            reason |-> "-", k |-> 0, accepted |-> 0, edges |-> 0, rejected |-> 0]

NoValidation == [fn |-> "none", items |-> <<>>, total |-> 0, valid |-> FALSE,
                 reason |-> "-", sku |-> 0]

NoLookup == [fn |-> "none", held |-> 0, sku |-> 0, found |-> FALSE]

NoAudit == [n |-> [r \in Reqs |-> 0], s |-> [r \in Reqs |-> 0], failed |-> FALSE]

InitWith(invs, ids) ==
  /\ inventory \in invs
  /\ orders = [o \in ids |-> NoOrder]
  /\ events = <<>>
  /\ pc = [r \in Reqs |-> "idle"]
  /\ args = [r \in Reqs |-> NoArgs]
  /\ loc = [r \in Reqs |-> NoLoc]
  /\ result = [r \in Reqs |-> NoResult]
  /\ calls = [r \in Reqs |-> <<>>]
  /\ faulted = [r \in Reqs |-> FALSE]
  /\ nreq = 0
  /\ inventory0 = inventory
  /\ guard = NoGuard
  /\ validation = NoValidation
  /\ audit = NoAudit
  /\ lookup = NoLookup

Init == InitWith(Inventories, OrderIds)

\* ------------------------------------------------------- create_order (POST /)
CreateStatuses == {"pending", "cancelled"}
OrderCreate == [id : OrderIds, user_id : OrderUserIds, status : CreateStatuses,
                items : ItemLists]

\* `current_user.role != "admin" and <user id> != current_user.id` is forbidden
AuthorizedAnyone(a, user_id) == TRUE
Authorized(a, user_id) == a.role = "admin" \/ user_id = a.id

\* crud.create_order: the row made of the fields of the request
Row(o) == [f \in DOMAIN o \ {"id"} |-> o[f]]

\* the request arrives: duplicate-id check, then authorization
StartCreate(r, a, o) ==
  /\ pc[r] = "idle"
  /\ nreq < MaxReqs
  /\ nreq' = nreq + 1
  /\ args' = [args EXCEPT ![r] =
                [kind |-> "create", actor |-> a, order |-> o, inv0 |-> inventory]]
  /\ IF orders[o.id] # NoOrder
     THEN Finish(r, Msg(400, "order_id_exists", "-"))
     ELSE IF ~Authorized(a, o.user_id)
          THEN Finish(r, Msg(403, "forbidden", "-"))
          ELSE Goto(r, "validate_user")
  /\ UNCHANGED <<inventory, orders, events, loc, calls, faulted, inventory0, lookup, guard, validation, audit>>

\* main.py after validate_order_data returned valid: reserve, or go to persist
BeginReservation(r) ==
  LET o == args[r].order
  IN IF o.items # <<>> /\ o.status # "cancelled"
     THEN /\ loc' = [loc EXCEPT ![r] =
                [NoLoc EXCEPT !.items = o.items, !.i = 1, !.mode = "deduct"]]
          /\ Goto(r, "reduce_get")
     ELSE /\ UNCHANGED loc
          /\ Goto(r, "persist")

\* validate_order_data: users_client.validate_user_exists
ValidateUser(r) ==
  /\ pc[r] = "validate_user"
  /\ \E out \in Outcomes :
       /\ Fault(r, out)
       /\ IF out = "down"
          THEN Finish(r, Msg(503, "service_communication_error", "-")) /\ UNCHANGED loc
          ELSE IF out = "err_status" \/ args[r].order.user_id \notin UsersDb
               THEN Finish(r, Msg(400, "user_does_not_exist", "-")) /\ UNCHANGED loc
               ELSE IF args[r].order.items # <<>>
                    THEN Goto(r, "validate_items") /\ UNCHANGED loc
                    ELSE BeginReservation(r)
  /\ UNCHANGED <<inventory, orders, events, args, calls, nreq, inventory0, lookup, guard, validation>>

\* validate_order_data: inventory_client.validate_items_exist
ValidateItems(r) ==
  /\ pc[r] = "validate_items"
  /\ \E out \in GetOutcomes :
       LET items == args[r].order.items
           k == FirstMissing(inventory, items)
       IN /\ Fault(r, out)
          /\ IF out = "down"
             THEN Finish(r, Msg(503, "service_communication_error", "-")) /\ UNCHANGED loc
             ELSE IF k # 0
                  THEN Finish(r, Msg(400, "sku_does_not_exist", items[k].sku))
                       /\ UNCHANGED loc
                  ELSE /\ loc' = [loc EXCEPT ![r].i = 1]
                       /\ Goto(r, "check_stock")
  /\ UNCHANGED <<inventory, orders, events, args, calls, nreq, inventory0, lookup, guard, validation>>

\* validate_order_data: inventory_client.check_stock_availability of item loc.i
CheckStock(r) ==
  /\ pc[r] = "check_stock"
  /\ \E out \in GetOutcomes :
       LET items == args[r].order.items
           it == items[loc[r].i]
           current == IF it.sku \in DOMAIN inventory THEN inventory[it.sku] ELSE 0
       IN /\ Fault(r, out)
          /\ IF out = "down"
             THEN Finish(r, Msg(503, "service_communication_error", "-")) /\ UNCHANGED loc
             ELSE IF it.sku \notin DOMAIN inventory
                     \/ ~StockAvailable(current, it.quantity)
                  THEN Finish(r, Msg(400, "insufficient_stock", it.sku)) /\ UNCHANGED loc
                  ELSE IF loc[r].i < Len(items)
                       THEN /\ loc' = [loc EXCEPT ![r].i = @ + 1]
                            /\ Goto(r, "check_stock")
                       ELSE BeginReservation(r)
  /\ UNCHANGED <<inventory, orders, events, args, calls, nreq, inventory0, lookup, guard, validation>>

\* reduce_inventory: get_item_by_sku, then the local computation
ReduceGet(r) ==
  /\ pc[r] = "reduce_get"
  /\ \E out \in GetOutcomes :
       LET it == loc[r].items[loc[r].i]
       IN /\ Fault(r, out)
          /\ IF out = "down"
             THEN ReduceFailed(r, Msg(400, "inventory_service_error", it.sku))
             ELSE IF it.sku \notin DOMAIN inventory
                  THEN ReduceFailed(r, Msg(400, "sku_not_found", it.sku))
                  ELSE IF ReduceRejects(ReduceNewQty(inventory[it.sku], it.quantity))
                       THEN ReduceFailed(r, Msg(400, "insufficient_inventory", it.sku))
                       ELSE /\ loc' = [loc EXCEPT ![r].cur = inventory[it.sku]]
                            /\ Goto(r, "reduce_put")
                            /\ UNCHANGED calls
  /\ UNCHANGED <<inventory, orders, events, args, nreq, inventory0, lookup, guard, validation>>

\* reduce_inventory: PUT /{item_id} {"qty": new_qty}
ReducePut(r) ==
  /\ pc[r] = "reduce_put"
  /\ \E out \in Outcomes :
       LET it == loc[r].items[loc[r].i]
       IN /\ Fault(r, out)
          /\ IF out = "down"
             THEN ReduceFailed(r, Msg(400, "inventory_service_error", it.sku))
                  /\ UNCHANGED inventory
             ELSE IF out = "err_status" \/ ~InventoryPutAllowed(args[r].actor)
                     \/ it.sku \notin DOMAIN inventory
                  THEN ReduceFailed(r, Msg(400, "inventory_update_failed", it.sku))
                       /\ UNCHANGED inventory
                  ELSE /\ inventory' = [inventory EXCEPT
                              ![it.sku] = ReduceNewQty(loc[r].cur, it.quantity)]
                       /\ ReduceSucceeded(r)
  /\ UNCHANGED <<orders, events, args, nreq, inventory0, lookup, guard, validation>>

\* restore_inventory: get_item_by_sku, then the local computation
RestoreGet(r) ==
  /\ pc[r] = "restore_get"
  /\ \E out \in GetOutcomes :
       LET it == loc[r].items[RestoreIndex(loc[r])]
       IN /\ Fault(r, out)
          /\ IF out = "down" \/ it.sku \notin DOMAIN inventory
             THEN RestoreReturned(r, FALSE)
             ELSE /\ loc' = [loc EXCEPT ![r].cur = inventory[it.sku]]
                  /\ Goto(r, "restore_put")
                  /\ UNCHANGED calls
  /\ UNCHANGED <<inventory, orders, events, args, nreq, inventory0, lookup, guard, validation>>

\* restore_inventory: PUT /{item_id} {"qty": new_qty}
RestorePut(r) ==
  /\ pc[r] = "restore_put"
  /\ \E out \in Outcomes :
       LET it == loc[r].items[RestoreIndex(loc[r])]
       IN /\ Fault(r, out)
          /\ IF out # "ok" \/ ~InventoryPutAllowed(args[r].actor)
                \/ it.sku \notin DOMAIN inventory
             THEN RestoreReturned(r, FALSE) /\ UNCHANGED inventory
             ELSE /\ inventory' = [inventory EXCEPT
                         ![it.sku] = RestoreNewQty(loc[r].cur, it.quantity)]
                  /\ RestoreReturned(r, TRUE)
  /\ UNCHANGED <<orders, events, args, nreq, inventory0, lookup, guard, validation>>

Event(oid, type, old, new, uid) ==
  [order_id |-> oid, event_type |-> type, old_value |-> old, new_value |-> new,
   user_id |-> uid]

\* crud.create_order as it would be if a failed commit gave the reserved
\* quantities back
PersistCreateCompensates(r) ==
  /\ pc[r] = "persist"
  /\ args[r].kind = "create"
  /\ \E out \in DbOutcomes :
       LET o == args[r].order
       IN /\ Fault(r, out)
          /\ IF out = "fail" \/ orders[o.id] # NoOrder
             THEN /\ Finish(r, Msg(500, "failed_to_create_order", "-"))
                  /\ inventory' = args[r].inv0
                  /\ UNCHANGED orders
             ELSE /\ orders' = [orders EXCEPT ![o.id] = Row(o)]
                  /\ Goto(r, "log_event")
                  /\ UNCHANGED inventory
  /\ UNCHANGED <<events, args, loc, calls, nreq, inventory0, lookup, guard, validation>>

\* crud.create_order: INSERT and commit; the primary key rejects a second row
PersistCreate(r) ==
  /\ pc[r] = "persist"
  /\ args[r].kind = "create"
  /\ \E out \in DbOutcomes :
       LET o == args[r].order
       IN /\ Fault(r, out)
          /\ IF out = "fail" \/ orders[o.id] # NoOrder
             THEN Finish(r, Msg(500, "failed_to_create_order", "-")) /\ UNCHANGED orders
             ELSE /\ orders' = [orders EXCEPT ![o.id] = Row(o)]
                  /\ Goto(r, "log_event")
  /\ UNCHANGED <<inventory, events, args, loc, calls, nreq, inventory0, lookup, guard, validation>>

\* log_order_event after crud.create_order: INSERT the `created` event and commit
LogCreated(r) ==
  /\ pc[r] = "log_event"
  /\ args[r].kind = "create"
  /\ \E out \in DbOutcomes :
       LET o == args[r].order
       IN /\ Fault(r, out)
          /\ IF out = "fail" \/ orders[o.id] = NoOrder
             THEN Finish(r, Msg(500, "failed_to_create_order", "-")) /\ UNCHANGED events
             ELSE /\ events' = Append(events,
                        Event(o.id, "created", "-", o.status, args[r].actor.id))
                  /\ Finish(r, Msg(201, "created", "-"))
  /\ UNCHANGED <<inventory, orders, args, loc, calls, nreq, inventory0, lookup, guard, validation>>

CreateSteps(r) ==
  \/ ValidateUser(r)
  \/ ValidateItems(r)
  \/ CheckStock(r)
  \/ ReduceGet(r)
  \/ ReducePut(r)
  \/ RestoreGet(r)
  \/ RestorePut(r)
  \/ PersistCreate(r)
  \/ LogCreated(r)

\* ---------------------------------------------- one create request, run alone
NextCreate ==
  \/ \E a \in Actors, o \in OrderCreate : StartCreate(1, a, o)
  \/ CreateSteps(1)

SpecCreate == Init /\ [][NextCreate]_vars

\* ------------------------------------------------ update_order (PUT /{order_id})
Unset == "unset"
OrderUpdate == [status : Statuses \cup {Unset}]

\* the request arrives: fetch, authorization, then the branch on the status change
\* (`if order.status and order.status != existing_order.status`: a status that is
\* left out or is the empty string is no change)
StartUpdate(r, a, oid, patch) ==
  /\ pc[r] = "idle"
  /\ nreq < MaxReqs
  /\ nreq' = nreq + 1
  /\ args' = [args EXCEPT ![r] =
                [kind |-> "update", actor |-> a, oid |-> oid, patch |-> patch,
                 inv0 |-> inventory, ev0 |-> events, row0 |-> orders[oid]]]
  /\ LET existing == orders[oid]
     IN IF existing = NoOrder
        THEN Finish(r, Msg(404, "order_not_found", "-")) /\ UNCHANGED loc
        ELSE IF ~Authorized(a, existing.user_id)
        THEN Finish(r, Msg(403, "forbidden", "-")) /\ UNCHANGED loc
        ELSE LET changed == /\ patch.status # Unset /\ patch.status # ""
                            /\ patch.status # existing.status
                 l == [NoLoc EXCEPT !.items = existing.items, !.i = 1,
                                    !.changed = changed,
                                    !.old = IF changed THEN existing.status ELSE "-"]
             IN IF changed /\ patch.status = "cancelled"
                   /\ existing.status # "cancelled" /\ existing.items # <<>>
                THEN /\ loc' = [loc EXCEPT ![r] = [l EXCEPT !.mode = "restore"]]
                     /\ Goto(r, "restore_get")
                ELSE IF changed /\ existing.status = "cancelled"
                        /\ patch.status # "cancelled" /\ existing.items # <<>>
                THEN /\ loc' = [loc EXCEPT ![r] = [l EXCEPT !.mode = "deduct"]]
                     /\ Goto(r, "reduce_get")
                ELSE /\ loc' = [loc EXCEPT ![r] = l]
                     /\ Goto(r, "persist")
  /\ UNCHANGED <<inventory, orders, events, calls, faulted, inventory0, lookup, guard, validation, audit>>

\* crud.update_order: `setattr(db_order, key, value)` for the fields the patch gives
\* (model_dump(exclude_unset=True): a field the request leaves out is not in the
\* patch; a status left out is held as Unset)
Given(patch, f) == f \in DOMAIN patch /\ (f = "status" => patch.status # Unset)
Patched(row, patch) ==
  [f \in DOMAIN row |-> IF Given(patch, f) THEN patch[f] ELSE row[f]]

\* crud.update_order runs in the session that loaded existing_order: the second
\* query hands back the object as it was loaded, and the commit writes the fields
\* whose new value differs from the loaded one
Changes(loaded, patch) ==
  [f \in {g \in DOMAIN patch : Given(patch, g) /\ patch[g] # loaded[g]} |-> patch[f]]

\* crud.update_order: fetch again, set the fields the patch gives, commit
PersistUpdate(r) ==
  /\ pc[r] = "persist"
  /\ args[r].kind = "update"
  /\ \E out \in DbOutcomes :
       LET oid == args[r].oid
           patch == args[r].patch
       IN /\ Fault(r, out)
          /\ IF orders[oid] = NoOrder
             THEN Finish(r, Msg(404, "order_not_found", "-")) /\ UNCHANGED orders
             ELSE IF out = "fail"
             THEN Finish(r, Msg(500, "internal_server_error", "-")) /\ UNCHANGED orders
             ELSE /\ orders' = [orders EXCEPT
                         ![oid] = Patched(@, Changes(args[r].row0, patch))]
                  /\ Goto(r, "log_event")
  /\ UNCHANGED <<inventory, events, args, loc, calls, nreq, inventory0, lookup, guard, validation>>

\* log_order_event after crud.update_order: status_changed or updated
LogUpdate(r) ==
  /\ pc[r] = "log_event"
  /\ args[r].kind = "update"
  /\ \E out \in DbOutcomes :
       LET oid == args[r].oid
       IN /\ Fault(r, out)
          /\ IF out = "fail" \/ orders[oid] = NoOrder
             THEN Finish(r, Msg(500, "internal_server_error", "-")) /\ UNCHANGED events
             ELSE /\ events' = Append(events,
                        IF loc[r].changed
                        THEN Event(oid, "status_changed", loc[r].old,
                                   args[r].patch.status, args[r].actor.id)
                        ELSE Event(oid, "updated", "-", "-", args[r].actor.id))
                  /\ Finish(r, Msg(200, "updated", "-"))
  /\ UNCHANGED <<inventory, orders, args, loc, calls, nreq, inventory0, lookup, guard, validation>>

\* --------------------------------------------- delete_order (DELETE /{order_id})
StartDelete(r, a, oid) ==
  /\ pc[r] = "idle"
  /\ nreq < MaxReqs
  /\ nreq' = nreq + 1
  /\ args' = [args EXCEPT ![r] =
                [kind |-> "delete", actor |-> a, oid |-> oid, inv0 |-> inventory]]
  /\ LET existing == orders[oid]
     IN IF existing = NoOrder
        THEN Finish(r, Msg(404, "order_not_found", "-"))
        ELSE IF ~Authorized(a, existing.user_id)
        THEN Finish(r, Msg(403, "forbidden", "-"))
        ELSE Goto(r, "delete")
  /\ UNCHANGED <<inventory, orders, events, loc, calls, faulted, inventory0, lookup, guard, validation, audit>>

RemoveEventsNone(evs, oid) == evs
RemoveEvents(evs, oid) == SelectSeq(evs, LAMBDA e : e.order_id # oid)

\* crud.delete_order: the order's events, then the order row, in one transaction
DeleteRows(r) ==
  /\ pc[r] = "delete"
  /\ \E out \in DbOutcomes :
       LET oid == args[r].oid
       IN /\ Fault(r, out)
          /\ IF out = "fail" \/ orders[oid] = NoOrder
             THEN Finish(r, Msg(404, "order_not_found", "-"))
                  /\ UNCHANGED <<orders, events>>
             ELSE /\ events' = RemoveEvents(events, oid)
                  /\ orders' = [orders EXCEPT ![oid] = NoOrder]
                  /\ Finish(r, Msg(204, "deleted", "-"))
  /\ UNCHANGED <<inventory, args, loc, calls, nreq, inventory0, lookup, guard, validation>>

\* the response is sent: the handler's locals are gone, the slot serves the next
Return(r) ==
  /\ pc[r] = "done"
  /\ nreq < MaxReqs
  /\ pc' = [pc EXCEPT ![r] = "idle"]
  /\ args' = [args EXCEPT ![r] = NoArgs]
  /\ loc' = [loc EXCEPT ![r] = NoLoc]
  /\ result' = [result EXCEPT ![r] = NoResult]
  /\ calls' = [calls EXCEPT ![r] = <<>>]
  /\ faulted' = [faulted EXCEPT ![r] = FALSE]
  /\ audit' = [audit EXCEPT !.n[r] = 0, !.s[r] = 0]
  /\ UNCHANGED <<inventory, orders, events, nreq, inventory0, lookup, guard, validation>>

\* ------------------------------------- requests served one after the other
NextSeq ==
  \/ \E a \in Actors, o \in OrderCreate : StartCreate(1, a, o)
  \/ \E a \in Actors, oid \in OrderIds, p \in OrderUpdate : StartUpdate(1, a, oid, p)
  \/ \E a \in Actors, oid \in OrderIds : StartDelete(1, a, oid)
  \/ ValidateUser(1)
  \/ ValidateItems(1)
  \/ CheckStock(1)
  \/ ReduceGet(1)
  \/ ReducePut(1)
  \/ RestoreGet(1)
  \/ RestorePut(1)
  \/ PersistCreate(1)
  \/ LogCreated(1)
  \/ PersistUpdate(1)
  \/ LogUpdate(1)
  \/ DeleteRows(1)
  \/ Return(1)

SpecSeq == Init /\ [][NextSeq]_vars

\* ------------------- requests served one after the other, items with prices
\* Orders whose items carry a price and which carry a total (thousandths), and
\* updates that replace the items.
LifeX == [sku |-> "X", quantity |-> 1, price |-> 1000]
LifeY == [sku |-> "Y", quantity |-> 1, price |-> 0]
LifeItemLists == { <<>>, <<LifeX, LifeX>>, <<LifeX, LifeY>> }
LifeTotals == {0, 1000}
LifeCreate == [id : OrderIds, user_id : {1}, total : LifeTotals,
               status : CreateStatuses, items : LifeItemLists]
LifeUpdate ==
  [status : Statuses \cup {Unset}]
    \cup [status : {Unset, "cancelled"}, items : { <<LifeX, LifeX>> }]

InitLife == InitWith([SKUs -> 0..MaxStock], OrderIds)

NextLife ==
  \/ \E a \in Actors, o \in LifeCreate : StartCreate(1, a, o)
  \/ \E a \in Actors, oid \in OrderIds, p \in LifeUpdate : StartUpdate(1, a, oid, p)
  \/ \E a \in Actors, oid \in OrderIds : StartDelete(1, a, oid)
  \/ ValidateUser(1)
  \/ ValidateItems(1)
  \/ CheckStock(1)
  \/ ReduceGet(1)
  \/ ReducePut(1)
  \/ RestoreGet(1)
  \/ RestorePut(1)
  \/ PersistCreate(1)
  \/ LogCreated(1)
  \/ PersistUpdate(1)
  \/ LogUpdate(1)
  \/ DeleteRows(1)
  \/ Return(1)

SpecLife == InitLife /\ [][NextLife]_vars

\* ------------- creates and updates served one after the other, items with prices
NextLedger ==
  \/ \E a \in Actors, o \in LifeCreate : StartCreate(1, a, o)
  \/ \E a \in Actors, oid \in OrderIds, p \in LifeUpdate : StartUpdate(1, a, oid, p)
  \/ ValidateUser(1)
  \/ ValidateItems(1)
  \/ CheckStock(1)
  \/ ReduceGet(1)
  \/ ReducePut(1)
  \/ RestoreGet(1)
  \/ RestorePut(1)
  \/ PersistCreate(1)
  \/ LogCreated(1)
  \/ PersistUpdate(1)
  \/ LogUpdate(1)
  \/ Return(1)

SpecLedger == InitLife /\ [][NextLedger]_vars

\* ----------------------------------- one create with pairwise distinct SKUs
RollbackSkus == {"X", "Y", "Z"}
RollbackItem == [sku : RollbackSkus, quantity : Quantities]
Distinct(items) ==
  \A m, n \in 1..Len(items) : m # n => items[m].sku # items[n].sku
DistinctLists ==
  { l \in UNION { [1..n -> RollbackItem] : n \in 0..Cardinality(RollbackSkus) } :
      Distinct(l) }
RollbackCreate == [id : OrderIds, user_id : {1}, status : {"pending"},
                   items : DistinctLists]

RollbackActors == { a \in Actors : a.role = "admin" \/ a.id = 1 }

InitRollback == InitWith([RollbackSkus -> 0..MaxStock], OrderIds)

NextRollbackCreate ==
  \/ \E a \in RollbackActors, o \in RollbackCreate : StartCreate(1, a, o)
  \/ CreateSteps(1)

SpecRollback == InitRollback /\ [][NextRollbackCreate]_vars

\* ------------------------------------------ two create requests, interleaved
RaceOrderIds == {"O1", "O2"}
\* no item, one item, or X followed by Y (so that a failed reservation of Y has
\* the reservation of X to roll back)
RaceItemLists ==
  {<<>>} \cup { <<it>> : it \in Item }
         \cup { <<[sku |-> "X", quantity |-> 1], it>> : it \in {i \in Item : i.sku = "Y"} }
RaceCreate == [id : RaceOrderIds, user_id : {1}, status : {"pending"},
               items : RaceItemLists]

InitRace == InitWith([SKUs -> 0..MaxStock], RaceOrderIds)

NextRace ==
  \E r \in Reqs :
    \/ \E o \in RaceCreate : StartCreate(r, Admin, o)
    \/ CreateSteps(r)

SpecRace == InitRace /\ [][NextRace]_vars

\* ------------------------------------------------- Status Transition Guard
\* validators.py: valid_transitions
valid_transitions_reopen ==
  [pending    |-> <<"processing", "cancelled">>,
   processing |-> <<"shipped", "cancelled">>,
   shipped    |-> <<"delivered", "cancelled">>,
   delivered  |-> <<"pending">>,
   cancelled  |-> <<"pending">>]

valid_transitions ==
  [pending    |-> <<"processing", "cancelled">>,
   processing |-> <<"shipped", "cancelled">>,
   shipped    |-> <<"delivered", "cancelled">>,
   delivered  |-> <<>>,
   cancelled  |-> <<"pending">>]

validate_no_same_status(old_status, new_status) ==
  IF old_status \notin DOMAIN valid_transitions
  THEN [valid |-> FALSE, reason |-> "unknown_old_status"]
  ELSE IF new_status \notin DOMAIN valid_transitions
  THEN [valid |-> FALSE, reason |-> "unknown_new_status"]
  ELSE IF ~InSeq(new_status, valid_transitions[old_status])
  THEN [valid |-> FALSE, reason |-> "invalid_transition"]
  ELSE [valid |-> TRUE, reason |-> "-"]

\* the guard with the same-status test moved before the membership tests
validate_same_status_first(old_status, new_status) ==
  IF old_status = new_status
  THEN [valid |-> TRUE, reason |-> "-"]
  ELSE IF old_status \notin DOMAIN valid_transitions
  THEN [valid |-> FALSE, reason |-> "unknown_old_status"]
  ELSE IF new_status \notin DOMAIN valid_transitions
  THEN [valid |-> FALSE, reason |-> "unknown_new_status"]
  ELSE IF ~InSeq(new_status, valid_transitions[old_status])
  THEN [valid |-> FALSE, reason |-> "invalid_transition"]
  ELSE [valid |-> TRUE, reason |-> "-"]

validate_order_status_transition(old_status, new_status) ==
  IF old_status \notin DOMAIN valid_transitions
  THEN [valid |-> FALSE, reason |-> "unknown_old_status"]
  ELSE IF new_status \notin DOMAIN valid_transitions
  THEN [valid |-> FALSE, reason |-> "unknown_new_status"]
  ELSE IF old_status = new_status
  THEN [valid |-> TRUE, reason |-> "-"]
  ELSE IF ~InSeq(new_status, valid_transitions[old_status])
  THEN [valid |-> FALSE, reason |-> "invalid_transition"]
  ELSE [valid |-> TRUE, reason |-> "-"]

\* inputs of the guard: the five statuses and strings outside them
GuardInputs == Statuses \cup {"refunded", ""}
\* the five statuses in the order the walk over all pairs takes them
StatusSeq == <<"pending", "processing", "shipped", "delivered", "cancelled">>
NumPairs == Len(StatusSeq) * Len(StatusSeq)
PairOld(k) == StatusSeq[(k \div Len(StatusSeq)) + 1]
PairNew(k) == StatusSeq[(k % Len(StatusSeq)) + 1]

\* the guard is applied to one pair of inputs
CheckTransition(old, new) ==
  /\ LET res == validate_order_status_transition(old, new)
     IN guard' = [guard EXCEPT !.checked = TRUE, !.old = old, !.new = new,
                               !.valid = res.valid, !.reason = res.reason]
  /\ UNCHANGED <<inventory, orders, events, pc, args, loc, result, calls, faulted,
                 nreq, inventory0, lookup, validation, audit>>

\* the guard is applied to the next pair of the walk, and the tally kept
TallyTransition ==
  /\ guard.k < NumPairs
  /\ LET old == PairOld(guard.k)
         new == PairNew(guard.k)
         res == validate_order_status_transition(old, new)
     IN guard' = [guard EXCEPT
          !.k = @ + 1,
          !.accepted = IF res.valid THEN @ + 1 ELSE @,
          !.edges = IF res.valid /\ old # new THEN @ + 1 ELSE @,
          !.rejected = IF res.valid THEN @ ELSE @ + 1]
  /\ UNCHANGED <<inventory, orders, events, pc, args, loc, result, calls, faulted,
                 nreq, inventory0, lookup, validation, audit>>

InitGuard == InitWith({[s \in SKUs |-> 0]}, OrderIds)

NextGuard ==
  \/ \E old \in GuardInputs, new \in GuardInputs : CheckTransition(old, new)
  \/ TallyTransition

SpecGuard == InitGuard /\ [][NextGuard]_vars

\* ------------------------------------------------------- Order Validator
\* validators.py.  Prices and totals are Decimal values; the model holds them as
\* whole numbers of thousandths, so 0.01 is 10 and 1,000,000 is 1000000000.
MaxOrderItems == 100
MaxQuantity == 10000
MaxPrice == 1000000000
Tolerance == 10

\* the first item of the list that fails one of the four tests of the loop, or 0
FirstBadItem(items) ==
  LET Bad(k) == \/ items[k].quantity <= 0
                \/ items[k].quantity > MaxQuantity
                \/ items[k].price < 0
                \/ items[k].price > MaxPrice
  IN IF \E k \in 1..Len(items) : Bad(k)
     THEN CHOOSE k \in 1..Len(items) : Bad(k) /\ \A m \in 1..(k - 1) : ~Bad(m)
     ELSE 0

Rejected(reason, sku) == [valid |-> FALSE, reason |-> reason, sku |-> sku]
Accepted == [valid |-> TRUE, reason |-> "-", sku |-> 0]

\* validate_order_items with the test of the number of items left out
validate_items_no_limit(items) ==
  IF items = <<>>
  THEN Rejected("no_items", 0)
  ELSE IF Cardinality({ items[k].sku : k \in 1..Len(items) }) # Len(items)
  THEN Rejected("duplicate_skus", 0)
  ELSE LET k == FirstBadItem(items)
       IN IF k = 0 THEN Accepted
          ELSE IF items[k].quantity <= 0
          THEN Rejected("quantity_not_positive", items[k].sku)
          ELSE IF items[k].quantity > MaxQuantity
          THEN Rejected("quantity_exceeds_maximum", items[k].sku)
          ELSE IF items[k].price < 0
          THEN Rejected("price_negative", items[k].sku)
          ELSE Rejected("price_exceeds_maximum", items[k].sku)

validate_order_items(items) ==
  IF items = <<>>
  THEN Rejected("no_items", 0)
  ELSE IF Len(items) > MaxOrderItems
  THEN Rejected("too_many_items", 0)
  ELSE IF Cardinality({ items[k].sku : k \in 1..Len(items) }) # Len(items)
  THEN Rejected("duplicate_skus", 0)
  ELSE LET k == FirstBadItem(items)
       IN IF k = 0 THEN Accepted
          ELSE IF items[k].quantity <= 0
          THEN Rejected("quantity_not_positive", items[k].sku)
          ELSE IF items[k].quantity > MaxQuantity
          THEN Rejected("quantity_exceeds_maximum", items[k].sku)
          ELSE IF items[k].price < 0
          THEN Rejected("price_negative", items[k].sku)
          ELSE Rejected("price_exceeds_maximum", items[k].sku)

RECURSIVE calculated_total(_)
\* validate_order_total: sum(Decimal(str(item.price)) * item.quantity)
calculated_total(items) ==
  IF items = <<>> THEN 0
  ELSE Head(items).price * Head(items).quantity + calculated_total(Tail(items))

Abs(x) == IF x < 0 THEN 0 - x ELSE x

\* validate_order_total rejecting a difference of the tolerance itself
validate_total_strict(items, claimed_total) ==
  IF Abs(calculated_total(items) - claimed_total) >= Tolerance
  THEN Rejected("total_mismatch", 0)
  ELSE Accepted

validate_order_total(items, claimed_total) ==
  IF Abs(calculated_total(items) - claimed_total) > Tolerance
  THEN Rejected("total_mismatch", 0)
  ELSE Accepted

\* Inputs of validate_order_items: n items with SKUs 1..n, quantity 1 and price
\* 0, of which the first has quantity q and price p, and of which the last
\* repeats the SKU of the first when dup.
ItemCounts == {0, 1, 2, MaxOrderItems, MaxOrderItems + 1}
TestQuantities == {-1, 0, 1, MaxQuantity, MaxQuantity + 1}
TestPrices == {-1, 0, 1, MaxPrice, MaxPrice + 1}
TestItems(n, q, p, dup) ==
  [k \in 1..n |->
     [sku |-> IF dup /\ k = n THEN 1 ELSE k,
      quantity |-> IF k = 1 THEN q ELSE 1,
      price |-> IF k = 1 THEN p ELSE 0]]

\* Inputs of validate_order_total: up to two items, and claimed totals around
\* the sums they make (0.000 .. 0.030 and 0.985 .. 1.015)
TotalItem == [sku : {1, 2}, quantity : {1, 2}, price : {0, 5, 1000}]
TotalLists == UNION { [1..n -> TotalItem] : n \in 0..2 }
ClaimedTotals == (0..30) \cup (985..1015)

\* validate_order_items is applied once, to one list
CheckItems(n, q, p, dup) ==
  /\ validation.fn = "none"
  /\ LET items == TestItems(n, q, p, dup)
         res == validate_order_items(items)
     IN validation' = [fn |-> "items", items |-> items, total |-> 0,
                       valid |-> res.valid, reason |-> res.reason, sku |-> res.sku]
  /\ UNCHANGED <<inventory, orders, events, pc, args, loc, result, calls, faulted,
                 nreq, inventory0, lookup, guard, audit>>

\* validate_order_total is applied once, to one list and one claimed total
CheckTotal(items, claimed_total) ==
  /\ validation.fn = "none"
  /\ LET res == validate_order_total(items, claimed_total)
     IN validation' = [fn |-> "total", items |-> items, total |-> claimed_total,
                       valid |-> res.valid, reason |-> res.reason, sku |-> res.sku]
  /\ UNCHANGED <<inventory, orders, events, pc, args, loc, result, calls, faulted,
                 nreq, inventory0, lookup, guard, audit>>

InitValidator == InitWith({[s \in SKUs |-> 0]}, OrderIds)

NextValidator ==
  \/ \E n \in ItemCounts, q \in TestQuantities, p \in TestPrices, dup \in BOOLEAN :
       CheckItems(n, q, p, dup)
  \/ \E items \in TotalLists, claimed_total \in ClaimedTotals :
       CheckTotal(items, claimed_total)

SpecValidator == InitValidator /\ [][NextValidator]_vars

\* ------------------------- an exception out of reduce_inventory / restore_inventory
\* reduce_inventory and restore_inventory catch httpx.HTTPError only.  Anything
\* else (response.json() on a body that is not JSON, a record without 'id' or
\* 'qty') comes out of the call and reaches `except Exception` of
\* process_inventory_for_order.

\* rollback_inventory_deductions is running inside the `except Exception` branch
InHandler(l) == l.mode = "rollback" /\ l.err.kind = "inventory_error"

\* (RaisedRetries: the branch as it would be if it called the rollback again
\* whenever the rollback raised)
\* process_inventory_for_order, `except Exception`: with deduct and something
\* processed, rollback_inventory_deductions is called (again, if the exception
\* came out of the rollback of line 74), and (False, "Inventory ... error") is
\* returned; an exception out of the rollback called here leaves the function
RaisedRetries(r) ==
  LET l == loc[r]
      m == Msg(400, "inventory_error", "-")
      j == NextRollback(l.items, l.processed, 1)
  IN IF l.mode \in {"deduct", "rollback"} /\ l.processed # <<>> /\ j # 0
     THEN /\ loc' = [loc EXCEPT ![r].mode = "rollback", ![r].err = m, ![r].j = j]
          /\ Goto(r, "restore_get")
     ELSE Finish(r, m) /\ UNCHANGED loc
Raised(r) ==
  LET l == loc[r]
      m == Msg(400, "inventory_error", "-")
      j == NextRollback(l.items, l.processed, 1)
  IN IF InHandler(l)
     THEN Finish(r, Msg(500, "internal_server_error", "-")) /\ UNCHANGED loc
     ELSE IF l.mode \in {"deduct", "rollback"} /\ l.processed # <<>> /\ j # 0
          THEN /\ loc' = [loc EXCEPT ![r].mode = "rollback", ![r].err = m, ![r].j = j]
               /\ Goto(r, "restore_get")
          ELSE Finish(r, m) /\ UNCHANGED loc

\* reduce_inventory raises while it looks the item up
ReduceRaises(r) ==
  /\ pc[r] = "reduce_get"
  /\ Fault(r, "raised")
  /\ calls' = [calls EXCEPT ![r] =
                 Append(@, Call("reserve", loc[r].items[loc[r].i], FALSE, "exception"))]
  /\ Raised(r)
  /\ UNCHANGED <<inventory, orders, events, args, nreq, inventory0, lookup, guard, validation>>

\* restore_inventory raises while it looks the item up
RestoreRaises(r) ==
  /\ pc[r] = "restore_get"
  /\ Fault(r, "raised")
  /\ calls' = [calls EXCEPT ![r] =
                 Append(@, Call("release", loc[r].items[RestoreIndex(loc[r])],
                                FALSE, "exception"))]
  /\ Raised(r)
  /\ UNCHANGED <<inventory, orders, events, args, nreq, inventory0, lookup, guard, validation>>

\* --------- one create with pairwise distinct SKUs whose inventory calls may raise
\* every item orders one unit; the administrator creates
RaiseLists == { l \in DistinctLists : \A k \in 1..Len(l) : l[k].quantity = 1 }
RaiseCreate == [id : OrderIds, user_id : {1}, status : {"pending"}, items : RaiseLists]

NextRaise ==
  \/ \E o \in RaiseCreate : StartCreate(1, Admin, o)
  \/ CreateSteps(1)
  \/ ReduceRaises(1)
  \/ RestoreRaises(1)

SpecRaise == InitRollback /\ [][NextRaise]_vars

\* ------------------ one request, run alone, on a database that may hold the order
SagaItem == [sku : SKUs, quantity : {1}]
SagaItemLists == UNION { [1..n -> SagaItem] : n \in 0..MaxItems }
SagaActors == { [id |-> 1, role |-> "user"], Admin }
SagaCreate == [id : OrderIds, user_id : {1}, status : CreateStatuses,
               items : SagaItemLists]
\* the status of a patch: one of the five, left out, or the empty string
SagaUpdate == [status : Statuses \cup {Unset, ""}]
\* the rows an earlier create by the administrator has left
StoredRows == [user_id : {1}, status : CreateStatuses, items : SagaItemLists]

\* the database holds one order and its `created` event, or nothing
InitHolding(invs, oid, rows) ==
  /\ inventory \in invs
  /\ \/ orders = [o \in OrderIds |-> NoOrder] /\ events = <<>>
     \/ \E row \in rows :
          /\ orders = [o \in OrderIds |-> IF o = oid THEN row ELSE NoOrder]
          /\ events = <<Event(oid, "created", "-", row.status, Admin.id)>>
  /\ pc = [r \in Reqs |-> "idle"]
  /\ args = [r \in Reqs |-> NoArgs]
  /\ loc = [r \in Reqs |-> NoLoc]
  /\ result = [r \in Reqs |-> NoResult]
  /\ calls = [r \in Reqs |-> <<>>]
  /\ faulted = [r \in Reqs |-> FALSE]
  /\ nreq = 0
  /\ inventory0 = inventory
  /\ guard = NoGuard
  /\ validation = NoValidation
  /\ audit = NoAudit
  /\ lookup = NoLookup

InitSaga == InitHolding([SKUs -> 0..MaxStock], "O1", StoredRows)

SagaSteps(r) ==
  \/ CreateSteps(r)
  \/ PersistUpdate(r)
  \/ LogUpdate(r)
  \/ ReduceRaises(r)
  \/ RestoreRaises(r)

NextSaga ==
  \/ \E a \in SagaActors, o \in SagaCreate : StartCreate(1, a, o)
  \/ \E a \in SagaActors, oid \in OrderIds, p \in SagaUpdate : StartUpdate(1, a, oid, p)
  \/ SagaSteps(1)

SpecSaga == InitSaga /\ [][NextSaga]_vars

\* ------------------------------- one request, run alone, every step taken in time
\* every SKU is out of stock or fully stocked; an update sets `pending` or
\* `cancelled`
TermUpdate == [status : {"pending", "cancelled"}]
InitTerm == InitHolding([SKUs -> {0, MaxStock}], "O1", StoredRows)

NextTerm ==
  \/ \E a \in SagaActors, o \in SagaCreate : StartCreate(1, a, o)
  \/ \E a \in SagaActors, oid \in OrderIds, p \in TermUpdate : StartUpdate(1, a, oid, p)
  \/ SagaSteps(1)

\* a handler that has a step to take takes it: the server runs every request to
\* its response, and every remote call returns, fails or times out
SpecTerm == InitTerm /\ [][NextTerm]_vars /\ WF_vars(SagaSteps(1))


\* ------------------------- two requests for one order, interleaved, by the administrator
OneX == [sku |-> "X", quantity |-> 1]
ConcurrentCreate == [id : OrderIds, user_id : {1}, status : CreateStatuses,
                     items : { <<>>, <<OneX>> }]
ConcurrentUpdate == [status : {"pending", "processing", "shipped", "cancelled"}]
ConcurrentRows == [user_id : {1}, status : CreateStatuses, items : { <<OneX>> }]

InitConcurrent == InitHolding([{"X"} -> 0..MaxStock], "O1", ConcurrentRows)

NextConcurrent ==
  \E r \in Reqs :
    \/ \E o \in ConcurrentCreate : StartCreate(r, Admin, o)
    \/ \E oid \in OrderIds, p \in ConcurrentUpdate : StartUpdate(r, Admin, oid, p)
    \/ CreateSteps(r)
    \/ PersistUpdate(r)
    \/ LogUpdate(r)

SpecConcurrent == InitConcurrent /\ [][NextConcurrent]_vars

\* ------------------------------------------- Inventory Ledger Client: lookup
\* list_inventory_items(skip: int = 0, limit: int = 100)
DefaultSkip == 0
DefaultLimit == 100

\* the Inventory service holding n records: record k has id k and SKU k
Records(n) == [k \in 1..n |-> [id |-> k, sku |-> k, qty |-> 0]]

\* crud.get_inventory_items: query.offset(skip).limit(limit).all()
get_inventory_items(records, skip, limit) ==
  SubSeq(records, skip + 1, IF skip + limit < Len(records) THEN skip + limit
                            ELSE Len(records))

\* get_all_items: GET / without query parameters
get_all_items(records) == get_inventory_items(records, DefaultSkip, DefaultLimit)

\* get_item_by_sku: the first item of get_all_items with that SKU, or None (0)
get_item_by_sku(records, sku) ==
  LET items == get_all_items(records)
  IN IF \E k \in 1..Len(items) : items[k].sku = sku
     THEN items[CHOOSE k \in 1..Len(items) :
                  /\ items[k].sku = sku
                  /\ \A m \in 1..(k - 1) : items[m].sku # sku].id
     ELSE 0

\* the numbers of records held: few, and around one page
RecordCounts == {0, 1} \cup (DefaultLimit - 1)..(DefaultLimit + 2)

\* the lookup is applied once to one inventory and one SKU
Lookup(n, sku) ==
  /\ lookup.fn = "none"
  /\ lookup' = [fn |-> "get_item_by_sku", held |-> n, sku |-> sku,
                found |-> get_item_by_sku(Records(n), sku) # 0]
  /\ UNCHANGED <<inventory, orders, events, pc, args, loc, result, calls, faulted,
                 nreq, inventory0, guard, validation, audit>>

InitLookup == InitWith({[s \in SKUs |-> 0]}, OrderIds)

NextLookup == \E n \in RecordCounts, sku \in 1..(DefaultLimit + 3) : Lookup(n, sku)

SpecLookup == InitLookup /\ [][NextLookup]_vars

\* =================================================================== claims
Done(r) == pc[r] = "done"
IsCreate(r) == args[r].kind = "create"
IsUpdate(r) == args[r].kind = "update"
\* the acting identity is the order's user or holds elevated privilege
MayCreate(r) ==
  args[r].actor.role = "admin" \/ args[r].order.user_id = args[r].actor.id

RECURSIVE SumQty(_, _)
\* the quantity the items order of one SKU
SumQty(items, sku) ==
  IF items = <<>> THEN 0
  ELSE (IF Head(items).sku = sku THEN Head(items).quantity ELSE 0)
       + SumQty(Tail(items), sku)

\* index of the first call that is a failed reservation, or 0
FirstFailedReserve(cs) ==
  IF \E k \in 1..Len(cs) : cs[k].op = "reserve" /\ ~cs[k].ok
  THEN CHOOSE k \in 1..Len(cs) :
         /\ cs[k].op = "reserve" /\ ~cs[k].ok
         /\ \A m \in 1..(k - 1) : ~(cs[m].op = "reserve" /\ ~cs[m].ok)
  ELSE 0

\* index of the first item whose SKU holds less than the item orders, or 0
FirstInsufficient(inv, items) ==
  IF \E k \in 1..Len(items) : inv[items[k].sku] < items[k].quantity
  THEN CHOOSE k \in 1..Len(items) :
         /\ inv[items[k].sku] < items[k].quantity
         /\ \A m \in 1..(k - 1) : inv[items[m].sku] >= items[m].quantity
  ELSE 0

AllSkusExist(inv, items) == \A k \in 1..Len(items) : items[k].sku \in DOMAIN inv

\* C1 (SpecRollback): a create whose items have pairwise distinct SKUs and whose
\* k-th reservation fails made exactly these calls: the k-1 successful
\* reservations, the failed one, then k-1 releases, one per reserved item, in the
\* order reserved and with the item's quantity, and nothing else; the response is
\* the failure of reservation k, whatever the releases returned.
C1_RollbackReleasesPrefix ==
  LET cs == calls[1]
      k == FirstFailedReserve(cs)
  IN (Done(1) /\ IsCreate(1) /\ k # 0 /\ Distinct(args[1].order.items)) =>
       LET items == args[1].order.items
       IN /\ k <= Len(items)
          /\ Len(cs) = 2 * k - 1
          /\ \A m \in 1..(k - 1) : cs[m] = Call("reserve", items[m], TRUE, "-")
          /\ cs[k].sku = items[k].sku /\ cs[k].quantity = items[k].quantity
          /\ \A m \in 1..(k - 1) :
               /\ cs[k + m].op = "release"
               /\ cs[k + m].sku = items[m].sku
               /\ cs[k + m].quantity = items[m].quantity
          /\ result[1] = Msg(400, cs[k].err, items[k].sku)
          /\ cs[k].err \in {"inventory_service_error", "sku_not_found",
                            "insufficient_inventory", "inventory_update_failed"}

\* the third reservation failed, two releases followed and the first of them failed
C1_Witness ==
  /\ Done(1) /\ IsCreate(1)
  /\ Len(calls[1]) = 5
  /\ FirstFailedReserve(calls[1]) = 3
  /\ ~calls[1][4].ok
  /\ calls[1][5].ok

\* C2 (SpecCreate): when a create run alone fails during reservation and every
\* compensating release succeeds, every SKU holds what it held before the create.
C2_CompensationRestores ==
  (/\ Done(1) /\ IsCreate(1)
   /\ FirstFailedReserve(calls[1]) # 0
   /\ \A k \in 1..Len(calls[1]) : calls[1][k].op = "release" => calls[1][k].ok)
  => inventory = args[1].inv0

\* C5 (SpecCreate): a create run alone by the order's user or an admin, for an
\* existing user, with status pending, distinct SKUs that all exist with stock >=
\* the ordered quantity, and no failing call, succeeds: every ordered SKU drops by
\* the item's quantity, the order is stored and one `created` event is recorded.
C5_Precondition ==
  LET o == args[1].order
  IN /\ Done(1) /\ IsCreate(1) /\ MayCreate(1)
     /\ o.user_id \in UsersDb
     /\ o.status = "pending"
     /\ Distinct(o.items)
     /\ AllSkusExist(args[1].inv0, o.items)
     /\ FirstInsufficient(args[1].inv0, o.items) = 0
     /\ ~faulted[1]

C5_CreateSucceeds ==
  C5_Precondition =>
    LET o == args[1].order
    IN /\ result[1].code = 201
       /\ \A s \in DOMAIN inventory :
            inventory[s] = args[1].inv0[s] - SumQty(o.items, s)
       /\ orders[o.id] = [user_id |-> o.user_id, status |-> o.status, items |-> o.items]
       /\ events = <<Event(o.id, "created", "-", o.status, args[1].actor.id)>>

\* C6 (SpecCreate): a create run alone by an authorised identity for an existing
\* user, whose SKUs all exist and whose calls do not fail, and of which some item
\* orders more than its SKU holds, fails with the insufficient-stock reason naming
\* the SKU of the first such item; no inventory call is made, no quantity
\* changes, no order is stored and no event is recorded.
C6_Precondition ==
  LET o == args[1].order
  IN /\ Done(1) /\ IsCreate(1) /\ MayCreate(1)
     /\ o.user_id \in UsersDb
     /\ AllSkusExist(args[1].inv0, o.items)
     /\ FirstInsufficient(args[1].inv0, o.items) # 0
     /\ ~faulted[1]

C6_InsufficientStock ==
  C6_Precondition =>
    LET o == args[1].order
        k == FirstInsufficient(args[1].inv0, o.items)
    IN /\ result[1] = Msg(400, "insufficient_stock", o.items[k].sku)
       /\ inventory = args[1].inv0
       /\ calls[1] = <<>>
       /\ orders[o.id] = NoOrder
       /\ events = <<>>

\* two items are short of stock, the second one by more than the first
C6_Witness ==
  /\ C6_Precondition
  /\ Len(args[1].order.items) = 2
  /\ args[1].order.items[1].sku # args[1].order.items[2].sku
  /\ args[1].inv0[args[1].order.items[2].sku] < args[1].order.items[2].quantity

\* C7: a create run alone with items X (stock sufficient) then Y (stock
\* insufficient), by an authorised identity for an existing user, no call failing
C7_Precondition ==
  LET o == args[1].order
  IN /\ Done(1) /\ IsCreate(1) /\ MayCreate(1)
     /\ o.user_id \in UsersDb
     /\ o.status = "pending"
     /\ Len(o.items) = 2
     /\ o.items[1].sku # o.items[2].sku
     /\ AllSkusExist(args[1].inv0, o.items)
     /\ args[1].inv0[o.items[1].sku] >= o.items[1].quantity
     /\ args[1].inv0[o.items[2].sku] < o.items[2].quantity
     /\ ~faulted[1]

\* C7 as claimed (SpecCreate): X is reserved by a successful write, the
\* reservation of Y fails, a release restores X, create fails with Y's reason.
C7_Original ==
  C7_Precondition =>
    LET o == args[1].order
    IN /\ Len(calls[1]) = 3
       /\ calls[1][1] = Call("reserve", o.items[1], TRUE, "-")
       /\ calls[1][2].op = "reserve" /\ calls[1][2].sku = o.items[2].sku
       /\ ~calls[1][2].ok
       /\ calls[1][3] = Call("release", o.items[1], TRUE, "-")
       /\ inventory = args[1].inv0
       /\ result[1].code = 400 /\ result[1].sku = o.items[2].sku

\* C7 as amended (SpecCreate): the create fails in validation with the
\* insufficient-stock reason of Y; no reservation and no release is issued, and
\* X keeps its quantity because it was never written.
C7_FailsInValidation ==
  C7_Precondition =>
    LET o == args[1].order
    IN /\ calls[1] = <<>>
       /\ result[1] = Msg(400, "insufficient_stock", o.items[2].sku)
       /\ inventory = args[1].inv0
       /\ orders[o.id] = NoOrder

C7_Witness == C7_Precondition /\ args[1].actor.role = "admin"

\* request r made exactly one inventory call: a successful reservation of sku
ReservedOnce(r, sku) ==
  /\ IsCreate(r)
  /\ Len(calls[r]) = 1
  /\ calls[r][1].op = "reserve" /\ calls[r][1].ok /\ calls[r][1].sku = sku

\* two creates of different orders for one SKU, each asking no more than the stock covers and
\* together more than it covers, have both had their reservation succeed
RaceCase(sku) ==
  /\ ReservedOnce(1, sku) /\ ReservedOnce(2, sku)
  /\ args[1].order.id # args[2].order.id
  /\ calls[1][1].quantity <= inventory0[sku]
  /\ calls[2][1].quantity <= inventory0[sku]
  /\ calls[1][1].quantity + calls[2][1].quantity > inventory0[sku]

\* C3 as claimed (SpecRace): when both reservations of such a pair have succeeded,
\* the remote quantity of the SKU is below zero.
C3_Original == \A sku \in SKUs : RaceCase(sku) => inventory[sku] < 0

\* C3 as amended (SpecRace): both reservations of such a pair can succeed, and the
\* remote quantity never goes below zero: each saga writes the quantity it
\* computed from its own read and checked to be >= 0, so the later write replaces
\* the earlier and the SKU holds the stock minus one of the two quantities.
C3_LostUpdateNotNegative ==
  \A sku \in SKUs :
    /\ inventory[sku] >= 0
    /\ RaceCase(sku) =>
         inventory[sku] \in { inventory0[sku] - calls[1][1].quantity,
                              inventory0[sku] - calls[2][1].quantity }

C3_Witness == \E sku \in SKUs : RaceCase(sku)

\* C4 (SpecRace): of two creates with the same order id at most one succeeds, and
\* when one succeeded and the other was rejected, with no call failing by a
\* fault, every SKU holds what the successful create alone leaves it.
C4_IdempotentById ==
  \A r1 \in Reqs, r2 \in Reqs :
    (/\ r1 # r2
     /\ Done(r1) /\ Done(r2) /\ IsCreate(r1) /\ IsCreate(r2)
     /\ args[r1].order.id = args[r2].order.id
     /\ ~faulted[r1] /\ ~faulted[r2]
     /\ result[r1].code = 201)
    => /\ result[r2].code # 201
       /\ \A sku \in SKUs :
            inventory[sku] = inventory0[sku] - SumQty(args[r1].order.items, sku)

\* C8 (SpecSeq): an update that changes a non-cancelled order with items to
\* `cancelled`, with no call failing by a fault, succeeds; every SKU of the order
\* rises by the quantity the order holds of it, the stored status is `cancelled`
\* and the last event is status_changed from the previous status to `cancelled`.
C8_Precondition ==
  /\ Done(1) /\ IsUpdate(1)
  /\ loc[1].changed
  /\ args[1].patch.status = "cancelled"
  /\ loc[1].items # <<>>
  /\ ~faulted[1]

C8_CancelReleases ==
  C8_Precondition =>
    /\ result[1].code = 200
    /\ \A s \in DOMAIN inventory :
         inventory[s] = args[1].inv0[s] + SumQty(loc[1].items, s)
    /\ orders[args[1].oid].status = "cancelled"
    /\ events # <<>>
    /\ events[Len(events)] =
         Event(args[1].oid, "status_changed", loc[1].old, "cancelled",
               args[1].actor.id)

\* the pairs the claim lists as legal edges
ClaimedEdges ==
  { <<"pending", "processing">>, <<"pending", "cancelled">>,
    <<"processing", "shipped">>, <<"processing", "cancelled">>,
    <<"shipped", "delivered">>, <<"shipped", "cancelled">>,
    <<"cancelled", "pending">> }

\* C9 (SpecGuard): applied to two of the five statuses, the guard accepts iff the
\* new status equals the old or the pair is an edge of the table; so it rejects
\* every change away from `delivered`.
C9_GuardAcceptance ==
  (guard.checked /\ guard.old \in Statuses /\ guard.new \in Statuses) =>
    /\ guard.valid <=> (guard.new = guard.old \/ <<guard.old, guard.new>> \in ClaimedEdges)
    /\ (guard.old = "delivered" /\ guard.new # "delivered") => ~guard.valid

C9_Witness ==
  /\ guard.checked
  /\ guard.old = "delivered" /\ guard.new = "pending"
  /\ ~guard.valid /\ guard.reason = "invalid_transition"

\* C10 as claimed (SpecGuard): over the 25 pairs the guard accepts six pairs of
\* distinct statuses and rejects 14 pairs.
C10_Original ==
  guard.k = NumPairs => (guard.edges = 6 /\ guard.rejected = 14)

\* C10 as amended (SpecGuard): over the 25 pairs the guard accepts seven pairs of
\* distinct statuses and the five same-status pairs, and rejects 13 pairs.
C10_SevenEdges ==
  guard.k = NumPairs =>
    (guard.edges = 7 /\ guard.accepted = 12 /\ guard.rejected = 13)

C10_Witness == guard.k = NumPairs /\ guard.edges + guard.rejected = 20

\* C11 as claimed (SpecGuard): applied to the same string on both sides, whether
\* one of the five statuses or not, the guard accepts.
C11_Original ==
  (guard.checked /\ guard.old = guard.new) => guard.valid

\* C11 as amended (SpecGuard): applied to the same string on both sides, the guard
\* accepts iff the string is one of the five statuses; a string outside them is
\* rejected as an unknown status, the test of the old side coming first.
C11_SameStatusKnownOnly ==
  (guard.checked /\ guard.old = guard.new) =>
    /\ guard.valid <=> guard.old \in Statuses
    /\ guard.old \notin Statuses => guard.reason = "unknown_old_status"

C11_Witness ==
  /\ guard.checked
  /\ guard.old = "refunded" /\ guard.new = "refunded"
  /\ ~guard.valid

\* the constraints of the Order Validator on an item list, one by one
NonEmpty(items) == items # <<>>
AtMost100(items) == Len(items) <= 100
DistinctSkus(items) ==
  \A m, n \in 1..Len(items) : m # n => items[m].sku # items[n].sku
QuantitiesInRange(items) ==
  \A k \in 1..Len(items) : items[k].quantity >= 1 /\ items[k].quantity <= 10000
PricesInRange(items) ==
  \A k \in 1..Len(items) : items[k].price >= 0 /\ items[k].price <= 1000000 * 1000

\* the reasons that name each constraint
ReasonsOf ==
  [no_items |-> {"no_items"}, too_many |-> {"too_many_items"},
   duplicate |-> {"duplicate_skus"},
   quantity |-> {"quantity_not_positive", "quantity_exceeds_maximum"},
   price |-> {"price_negative", "price_exceeds_maximum"}]

\* the constraints the list violates
Violated(items) ==
  { c \in DOMAIN ReasonsOf :
      \/ c = "no_items" /\ ~NonEmpty(items)
      \/ c = "too_many" /\ ~AtMost100(items)
      \/ c = "duplicate" /\ ~DistinctSkus(items)
      \/ c = "quantity" /\ ~QuantitiesInRange(items)
      \/ c = "price" /\ ~PricesInRange(items) }

\* C13 (SpecValidator): validate_order_items accepts a list iff it violates none
\* of the five constraints, and a list that violates exactly one of them is
\* rejected with a reason naming that constraint.
C13_ItemsAcceptance ==
  validation.fn = "items" =>
    LET v == Violated(validation.items)
    IN /\ validation.valid <=> v = {}
       /\ \A c \in DOMAIN ReasonsOf :
            v = {c} => validation.reason \in ReasonsOf[c]

\* a list of 101 valid items with distinct SKUs is rejected for its length
C13_Witness ==
  /\ validation.fn = "items"
  /\ Violated(validation.items) = {"too_many"}
  /\ ~validation.valid /\ validation.reason = "too_many_items"

RECURSIVE LineTotal(_, _)
\* the sum of quantity x price over the first n items
LineTotal(items, n) ==
  IF n = 0 THEN 0
  ELSE LineTotal(items, n - 1) + items[n].quantity * items[n].price

\* C14 (SpecValidator): validate_order_total accepts iff the sum of quantity x
\* price over the items and the claimed total differ by at most 0.01, in either
\* direction.
C14_TotalTolerance ==
  validation.fn = "total" =>
    LET d == LineTotal(validation.items, Len(validation.items)) - validation.total
    IN validation.valid <=> (d >= -10 /\ d <= 10)

\* a claimed total exactly 0.01 above the sum of the items is accepted
C14_Witness ==
  /\ validation.fn = "total"
  /\ validation.items # <<>>
  /\ validation.total - LineTotal(validation.items, Len(validation.items)) = 10
  /\ validation.valid

\* C12 (SpecSeq): an update that asks for a status the guard does not accept from
\* the order's current status changes neither the stored status nor any
\* inventory quantity (so that the stored status only changes along accepted pairs).
C12_GuardEnforced ==
  (/\ Done(1) /\ IsUpdate(1)
   /\ loc[1].changed
   /\ ~validate_order_status_transition(loc[1].old, args[1].patch.status).valid)
  => /\ orders[args[1].oid].status = loc[1].old
     /\ inventory = args[1].inv0

\* C15 (SpecLife): every stored order has at most 100 items, pairwise distinct
\* SKUs and a total within 0.01 of the sum of quantity x price of its items.
C15_StoredLineItems ==
  \A oid \in OrderIds :
    orders[oid] # NoOrder =>
      LET items == orders[oid].items
          d == LineTotal(items, Len(items)) - orders[oid].total
      IN /\ AtMost100(items)
         /\ DistinctSkus(items)
         /\ d >= -10 /\ d <= 10

\* the responses the validation step of create can end with
ValidationKinds ==
  {"service_communication_error", "user_does_not_exist", "sku_does_not_exist",
   "insufficient_stock"}

\* C16 (SpecCreate): a create that ends in its validation step ends with the
\* service-unavailable outcome (503) when a call of the step failed, and with a
\* validation failure (400) that is true of the user, the SKU or the stock when
\* none failed; in both cases no inventory call is made, no quantity changes and
\* no order is stored.
C16_ValidationOutcome ==
  (Done(1) /\ IsCreate(1) /\ result[1].kind \in ValidationKinds) =>
    LET o == args[1].order
        inv == args[1].inv0
    IN /\ faulted[1] => result[1] = Msg(503, "service_communication_error", "-")
       /\ ~faulted[1] =>
            /\ result[1].code = 400
            /\ result[1].kind = "user_does_not_exist" => o.user_id \notin UsersDb
            /\ result[1].kind = "sku_does_not_exist" => result[1].sku \notin DOMAIN inv
            /\ result[1].kind = "insufficient_stock" =>
                 \E k \in 1..Len(o.items) :
                   /\ o.items[k].sku = result[1].sku
                   /\ inv[o.items[k].sku] < o.items[k].quantity
       /\ calls[1] = <<>>
       /\ inventory = inv
       /\ orders[o.id] = NoOrder

\* C17 (SpecCreate): a create whose reservation step ended on a call that got no
\* response (timeout, transport failure) answers with the service-unavailable
\* outcome (503), not with the 400 of a validation failure.
C17_ReservationUnavailable ==
  LET k == FirstFailedReserve(calls[1])
  IN (/\ Done(1) /\ IsCreate(1)
      /\ k # 0
      /\ calls[1][k].err = "inventory_service_error")
     => result[1].code = 503

\* the acting identity is neither the given user nor an admin
Forbidden(a, user_id) == a.role # "admin" /\ user_id # a.id

\* the step in which a request arrives in slot 1
Arrives == pc[1] = "idle" /\ pc'[1] # "idle"

\* the arrival step answers 403 and changes nothing else
RejectedAsForbidden ==
  /\ pc'[1] = "done"
  /\ result'[1] = Msg(403, "forbidden", "-")
  /\ UNCHANGED <<inventory, orders, events, calls, faulted, audit>>

\* C18 as claimed (SpecLife): a create by an identity that is neither the order's
\* user nor an admin, and an update or delete of a stored order by an identity
\* that is neither its owner nor an admin, is answered 403 in the step in which it
\* arrives, before any remote call, with orders, events and inventory unchanged.
C18_Original ==
  [][ Arrives =>
        LET q == args'[1]
        IN (\/ q.kind = "create" /\ Forbidden(q.actor, q.order.user_id)
            \/ /\ q.kind \in {"update", "delete"}
               /\ orders[q.oid] # NoOrder
               /\ Forbidden(q.actor, orders[q.oid].user_id))
           => RejectedAsForbidden ]_vars

\* C18 as amended (SpecLife): the same, for a create whose order id is not stored
\* yet; a create whose id is already stored is answered 400 (id exists) whoever
\* sends it, also in the step in which it arrives and with nothing changed.
C18_ForbiddenBeforeEffects ==
  [][ Arrives =>
        LET q == args'[1]
        IN /\ (\/ /\ q.kind = "create"
                  /\ orders[q.order.id] = NoOrder
                  /\ Forbidden(q.actor, q.order.user_id)
               \/ /\ q.kind \in {"update", "delete"}
                  /\ orders[q.oid] # NoOrder
                  /\ Forbidden(q.actor, orders[q.oid].user_id))
              => RejectedAsForbidden
           /\ (q.kind = "create" /\ orders[q.order.id] # NoOrder)
              => /\ pc'[1] = "done"
                 /\ result'[1] = Msg(400, "order_id_exists", "-")
                 /\ UNCHANGED <<inventory, orders, events, calls, faulted, audit>> ]_vars

\* an update of a stored order by a user who does not own it was answered 403
C18_Witness ==
  /\ Done(1) /\ IsUpdate(1)
  /\ orders[args[1].oid] # NoOrder
  /\ Forbidden(args[1].actor, orders[args[1].oid].user_id)
  /\ result[1].code = 403

\* C19 (SpecLife): every event references a stored order; the step of delete that
\* touches the database either removes all events of the order and the order
\* row together (204) or leaves events and orders as they were, and in both
\* cases changes no inventory quantity.
C19_TimelineIntegrity ==
  /\ [](\A k \in 1..Len(events) : orders[events[k].order_id] # NoOrder)
  /\ [][ (pc[1] = "delete" /\ pc'[1] # "delete") =>
           LET oid == args[1].oid
           IN /\ inventory' = inventory
              /\ \/ /\ result'[1].code = 204
                    /\ orders' = [orders EXCEPT ![oid] = NoOrder]
                    /\ \A k \in 1..Len(events') : events'[k].order_id # oid
                    /\ events' = SelectSeq(events, LAMBDA e : e.order_id # oid)
                 \/ /\ result'[1].code # 204
                    /\ UNCHANGED <<orders, events>> ]_vars

\* an order that had a `created` event was deleted together with it
C19_Witness ==
  /\ Done(1) /\ args[1].kind = "delete"
  /\ result[1].code = 204
  /\ orders[args[1].oid] = NoOrder
  /\ events = <<>>

NoException(cs) == \A k \in 1..Len(cs) : cs[k].err # "exception"

RECURSIVE ReleasedQty(_, _)
\* the quantity the successful releases among the calls gave back to one SKU
ReleasedQty(cs, sku) ==
  IF cs = <<>> THEN 0
  ELSE (IF Head(cs).op = "release" /\ Head(cs).ok /\ Head(cs).sku = sku
        THEN Head(cs).quantity ELSE 0)
       + ReleasedQty(Tail(cs), sku)

RECURSIVE ReservedQty(_, _)
\* the quantity the successful reservations among the calls took from one SKU
ReservedQty(cs, sku) ==
  IF cs = <<>> THEN 0
  ELSE (IF Head(cs).op = "reserve" /\ Head(cs).ok /\ Head(cs).sku = sku
        THEN Head(cs).quantity ELSE 0)
       + ReservedQty(Tail(cs), sku)

\* the update in slot 1 moves a stored order with items into `cancelled`
Cancels(r) ==
  /\ IsUpdate(r) /\ loc[r].changed
  /\ args[r].patch.status = "cancelled" /\ loc[r].items # <<>>

\* the update in slot 1 moves a stored order with items out of `cancelled`
Reactivates(r) ==
  /\ IsUpdate(r) /\ loc[r].changed
  /\ loc[r].old = "cancelled" /\ loc[r].items # <<>>

Compensated(items, k) ==
  SelectSeq(items, LAMBDA it : \E m \in 1..(k - 1) : items[m].sku = it.sku)

\* C22 as claimed (SpecSaga): an update that moves an order with items out of
\* `cancelled` and whose reservation of item k > 1 fails issues no release, so the
\* k-1 reservations stay in effect.
C22_Original ==
  LET cs == calls[1]
      k == FirstFailedReserve(cs)
  IN (Done(1) /\ Reactivates(1) /\ NoException(cs) /\ k > 1) =>
       /\ \A m \in 1..Len(cs) : cs[m].op # "release"
       /\ \A s \in DOMAIN inventory :
            inventory[s] = args[1].inv0[s] - ReservedQty(cs, s)

\* C22 (SpecSaga): an update that moves an order with items out of `cancelled`,
\* none of whose calls raised, and whose reservation of item k fails ends in that
\* failure with the stored order and the events as they were; before it returns
\* it calls a release, in list order, for every item whose SKU is that of one of
\* the k-1 items reserved, and nothing else; every SKU holds what it held minus
\* what was reserved plus what the successful releases gave back.
C22_ReactivationCompensates ==
  LET cs == calls[1]
      k == FirstFailedReserve(cs)
  IN (Done(1) /\ Reactivates(1) /\ NoException(cs) /\ k # 0) =>
       LET items == loc[1].items
           rb == Compensated(items, k)
           q == args[1]
       IN /\ k <= Len(items)
          /\ \A m \in 1..(k - 1) : cs[m] = Call("reserve", items[m], TRUE, "-")
          /\ result[1] = Msg(400, cs[k].err, items[k].sku)
          /\ orders[q.oid].status = "cancelled"
          /\ events = q.ev0
          /\ Len(rb) >= k - 1
          /\ Len(cs) = k + Len(rb)
          /\ \A m \in 1..Len(rb) :
               /\ cs[k + m].op = "release"
               /\ cs[k + m].sku = rb[m].sku
               /\ cs[k + m].quantity = rb[m].quantity
          /\ \A s \in DOMAIN inventory :
               inventory[s] = q.inv0[s] - ReservedQty(cs, s) + ReleasedQty(cs, s)

\* the reservation of the second item failed and the first item was released
C22_Witness ==
  /\ Done(1) /\ Reactivates(1) /\ NoException(calls[1])
  /\ FirstFailedReserve(calls[1]) = 2
  /\ Len(calls[1]) = 3
  /\ calls[1][3].op = "release" /\ calls[1][3].ok
  /\ inventory = args[1].inv0
  /\ orders[args[1].oid].status = "cancelled"

\* C23 (SpecSaga): an update that ends in 200 has appended exactly one event to
\* the events held when it arrived: status_changed with the stored status before
\* and after it when the stored status is no longer what it was, `updated`
\* otherwise; an update that ends in anything else has appended none.
C23_OneEventPerUpdate ==
  (Done(1) /\ IsUpdate(1)) =>
    LET q == args[1]
    IN IF result[1].code = 200
       THEN LET before == q.row0.status
                after == orders[q.oid].status
            IN events = Append(q.ev0,
                 IF after # before
                 THEN Event(q.oid, "status_changed", before, after, q.actor.id)
                 ELSE Event(q.oid, "updated", "-", "-", q.actor.id))
       ELSE events = q.ev0

\* the items the saga of the request in slot r works on
SagaItemsOf(r) == IF IsCreate(r) THEN args[r].order.items ELSE loc[r].items

\* the reservations among the calls, in the order made
ReservesOf(cs) == SelectSeq(cs, LAMBDA c : c.op = "reserve")

\* the request in slot r has arrived and has not been answered
Running(r) == pc[r] \notin {"idle", "done"}

\* C24 (SpecTerm, every enabled step of the handler is eventually taken): a
\* create or update that has arrived is eventually answered.  At every moment
\* process_inventory_for_order has made at most 6 remote calls per item of the
\* order (none for an order without items), the request at most 2 + 7 per item
\* in all, and the reservations called are for the first items of the order, in
\* list order and once each.
C24_SagaTerminates ==
  /\ [](pc[1] # "idle" =>
          LET items == SagaItemsOf(1)
              rs == ReservesOf(calls[1])
          IN /\ audit.s[1] <= 6 * Len(items)
             /\ audit.n[1] <= 2 + 7 * Len(items)
             /\ Len(rs) <= Len(items)
             /\ \A m \in 1..Len(rs) :
                  rs[m].sku = items[m].sku /\ rs[m].quantity = items[m].quantity)
  /\ (Running(1) ~> Done(1))

\* a create of two items was answered after a reservation failed, a release of
\* the rollback raised and the rollback ran again: eleven calls of the saga
C24_Witness ==
  /\ Done(1) /\ IsCreate(1)
  /\ Len(SagaItemsOf(1)) = 2
  /\ audit.s[1] = 11
  /\ \E k \in 1..Len(calls[1]) : calls[1][k].err = "exception"

\* the quantity of one SKU that the stored orders which are not cancelled hold
Held(sku) ==
  LET held(o) == IF orders[o] = NoOrder \/ orders[o].status = "cancelled"
                 THEN 0 ELSE SumQty(orders[o].items, sku)
  IN held("O1")

\* C25 (SpecLedger): between requests served one after the other, creates and
\* updates only, none of whose remote calls or commits has failed, every SKU's
\* initial stock is its current stock plus the quantity of it that the stored
\* orders which are not cancelled hold.
C25_LedgerConservation ==
  (pc[1] \in {"idle", "done"} /\ ~audit.failed) =>
    \A sku \in DOMAIN inventory : inventory0[sku] = inventory[sku] + Held(sku)

\* C26 (SpecConcurrent): when two updates of one stored non-cancelled order with
\* items have both moved it into `cancelled` and both were answered 200, the
\* successful releases of the two together gave back no more of any SKU than the
\* order holds of it, and no SKU holds more than it held before the two plus what
\* the order holds of it.
C26_NoDoubleRelease ==
  (/\ Done(1) /\ Done(2) /\ Cancels(1) /\ Cancels(2)
   /\ result[1].code = 200 /\ result[2].code = 200) =>
    \A sku \in DOMAIN inventory :
      /\ ReleasedQty(calls[1], sku) + ReleasedQty(calls[2], sku)
           <= SumQty(loc[1].items, sku)
      /\ inventory[sku] <= inventory0[sku] + SumQty(loc[1].items, sku)

\* the `created` and status_changed events of one order, in timeline order
StatusEvents(oid) ==
  SelectSeq(events, LAMBDA e : e.order_id = oid
                               /\ e.event_type \in {"created", "status_changed"})

\* C29 (SpecConcurrent): once every request that arrived is answered, and no
\* remote call or commit of any of them has failed, the status events of the
\* stored order form a chain: each status_changed event's old value is the new
\* value of the status event before it, and the last one's new value is the
\* stored status.
C29_StatusChain ==
  ((\A r \in Reqs : pc[r] \in {"idle", "done"}) /\ ~audit.failed /\ orders["O1"] # NoOrder) =>
    LET se == StatusEvents("O1")
    IN /\ \A k \in 2..Len(se) :
            se[k].event_type = "status_changed" => se[k].old_value = se[k - 1].new_value
       /\ se # <<>> => se[Len(se)].new_value = orders["O1"].status

\* what process_inventory_for_order reports for the failed reservation k
OriginalFailure(cs, k, items) ==
  IF cs[k].err = "exception" THEN Msg(400, "inventory_error", "-")
  ELSE Msg(400, cs[k].err, items[k].sku)

\* C27 (SpecRaise): a create whose items have pairwise distinct SKUs and whose
\* reservation of item k failed, by an error result or by an exception, has given
\* back to no SKU more than it reserved of it, and answers with the failure of
\* reservation k, also when a release of the rollback raised.
C27_AtMostOnceRelease ==
  LET cs == calls[1]
      k == FirstFailedReserve(cs)
  IN (Done(1) /\ IsCreate(1) /\ k # 0) =>
       /\ \A sku \in DOMAIN inventory : ReleasedQty(cs, sku) <= ReservedQty(cs, sku)
       /\ result[1] = OriginalFailure(cs, k, args[1].order.items)

\* C28 (SpecCreate): a create that is answered with an error has stored no order
\* under its id.
C28_FailedCreateLeavesNoOrder ==
  (Done(1) /\ IsCreate(1) /\ result[1].code # 201) =>
    orders[args[1].order.id] = NoOrder

\* C30 (SpecLookup): the lookup reports a SKU as not found only when none of the
\* records the Inventory service holds has that SKU.
C30_LookupComplete ==
  (lookup.fn = "get_item_by_sku" /\ ~lookup.found) =>
    \A k \in 1..lookup.held : Records(lookup.held)[k].sku # lookup.sku

====
